---------------------------- MODULE Spec2Model ----------------------------
(***************************************************************************)
(* The callback plugin of the router (src/src/plugins/callback_plugin.rs): *)
(* the CallbackPluginBuilder and its setters, the CallbackPlugin hooks,    *)
(* the blanket Plugin implementation that wraps a service between a        *)
(* map_request and a map_response layer, and the wiring of                 *)
(* src/src/demos/custom_wiring.rs.                                         *)
(***************************************************************************)
EXTENDS Integers, Sequences, FiniteSets, TLC

VARIABLES
    pluginBuilder,  \* the CallbackPluginBuilder value the caller holds
    alive,          \* FALSE once a setter panicked: the value moved into it is dropped
    calls,          \* the setter calls made on this builder so far, with how each ended
    plugins,        \* the registered plugins P1..Pn, in registration order
    stage,          \* the stage being decorated and invoked
    sname,          \* the backend name of a subgraph stage
    decorated,      \* the decorated service: its layers, the innermost first
    applied,        \* how many plugins have been applied to the service
    pc,             \* where the invoke of the decorated service stands
    depth,          \* the layer the request or the response is passing
    req0,           \* the request the caller passed
    val,            \* the request as transformed so far
    baseReq,        \* the request the base service received
    baseRes,        \* what the base service returned
    result,         \* the response or failure travelling back to the caller
    log,            \* the callbacks and the base service, in the order they ran
    ppc,            \* where the request stands in the pipeline
    pval,           \* the request of the pipeline as transformed so far
    plan,           \* the backend calls the planner produced, by backend name
    fanout,         \* each backend call of the plan: where it stands, its request,
                    \* its result, and the callbacks and base service it ran
    presult,        \* the response or failure of the stage that returned last
    perrors,        \* the error entries of the aggregate response
    results,        \* the results of the backend calls, in the order they arrived
    plog,           \* the callbacks, the planner and the merge, in the order they ran
    inflight,       \* the concurrent requests: where each is, its backend calls
                    \* and whether its response was produced
    buffer          \* the Buffer in front of a service: requests queued, callers
                    \* pending in poll_ready, the worker's call of the service

builderVars == <<pluginBuilder, alive, calls>>

stageVars == <<plugins, stage, sname, decorated, applied, pc, depth, req0, val,
               baseReq, baseRes, result, log>>

stageRunVars == <<stage, sname, decorated, applied, pc, depth, val, baseReq, baseRes,
                  result, log>>

pipelineVars == <<ppc, pval, plan, fanout, results, presult, perrors, plog>>

vars == <<pluginBuilder, alive, calls, plugins, stage, sname, decorated, applied,
          pc, depth, req0, val, baseReq, baseRes, result, log,
          ppc, pval, plan, fanout, results, presult, perrors, plog, inflight, buffer>>

-----------------------------------------------------------------------------
(* Bounds of the model *)

MaxCalls == 4
MaxPlugins == 2
MaxPlanCalls == 2
MaxPending == 2
MaxRequests == 2
MaxFanout == 3

-----------------------------------------------------------------------------
(* CallbackPluginBuilder *)

\* Option::None of a callback slot; registered callbacks are numbered from 1.
None == 0

\* The backend (subgraph) names of the wiring.
Names == {"books", "authors"}

\* The six fields the with! macro generates a setter for.
SingleHooks ==
    {"before_router", "after_router",
     "before_query_planning", "after_query_planning",
     "before_execution", "after_execution"}

\* #[derive(Default)]: every Option is None, every Vec and HashMap is empty.
\* A HashMap is a function on Names; None stands for an absent key.
Default ==
    [before_router |-> None, after_router |-> None,
     before_query_planning |-> None, after_query_planning |-> None,
     before_execution |-> None, after_execution |-> None,
     before_any_subgraph |-> <<>>, after_any_subgraph |-> <<>>,
     before_subgraph |-> [n \in Names |-> None],
     after_subgraph |-> [n \in Names |-> None]]

\* pub fn builder()
builder == Default

\* What a setter call ends with: the new builder, or a panic that unwinds
\* through the caller (self was moved into the setter and is dropped).
Returned(self) == [tag |-> "ok", self |-> self]
Panicked == [tag |-> "panic"]

\* HashMap::contains_key and HashMap::insert (insert replaces a present key).
contains_key(map, key) == map[key] # None
insert_alone(map, key, value) == [k \in DOMAIN map |-> IF k = key THEN value ELSE None]
insert(map, key, value) == [map EXCEPT ![key] = value]

\* with! without its is_some() check: a second call replaces the callback.
with_overwrite(self, name, callback) ==
    Returned([self EXCEPT ![name] = callback])

\* macro with!: fn with_$name(self, $name) -> Self
with(self, name, callback) ==
    IF self[name] # None
    THEN Panicked
    ELSE Returned([self EXCEPT ![name] = callback])

\* fn with_before_any_subgraph(mut self, callback) -> Self
with_before_any_subgraph(self, callback) ==
    Returned([self EXCEPT !.before_any_subgraph = Append(@, callback)])

\* fn with_after_any_subgraph(mut self, callback) -> Self
with_after_any_subgraph(self, callback) ==
    Returned([self EXCEPT !.after_any_subgraph = Append(@, callback)])

\* fn with_before_subgraph(mut self, service_name, callback) -> Self
with_before_subgraph(self, service_name, callback) ==
    IF contains_key(self.before_subgraph, service_name)
    THEN Panicked
    ELSE Returned([self EXCEPT !.before_subgraph = insert(@, service_name, callback)])

\* fn with_after_subgraph(mut self, service_name, callback) -> Self
with_after_subgraph(self, service_name, callback) ==
    IF contains_key(self.after_subgraph, service_name)
    THEN Panicked
    ELSE Returned([self EXCEPT !.after_subgraph = insert(@, service_name, callback)])

\* fn build(self) -> Self
build(self) == self

\* The name a setter call without a service_name is recorded under.
NoName == "-"

\* Every setter call passes a closure of its own (Arc::new at each call):
\* the callback is numbered by the call that registered it.
NextCallback == Len(calls) + 1

\* The caller's side of one setter call: the result replaces the builder,
\* a panic leaves the caller without one.
Finish(setter, name, r) ==
    /\ calls' = Append(calls, [setter |-> setter, name |-> name,
                               cb |-> NextCallback, ret |-> r.tag])
    /\ alive' = (r.tag = "ok")
    /\ pluginBuilder' = IF r.tag = "ok" THEN r.self ELSE Default
    /\ UNCHANGED <<stageVars, pipelineVars, inflight, buffer>>

CanCall == alive /\ Len(calls) < MaxCalls

CallBuilder ==
    /\ pluginBuilder' = builder
    /\ alive' = TRUE
    /\ calls' = <<>>
    /\ UNCHANGED <<stageVars, pipelineVars, inflight, buffer>>

CallWith ==
    \E name \in SingleHooks :
        /\ CanCall
        /\ Finish(name, NoName, with(pluginBuilder, name, NextCallback))

CallWithBeforeAnySubgraph ==
    /\ CanCall
    /\ Finish("before_any_subgraph", NoName,
              with_before_any_subgraph(pluginBuilder, NextCallback))

CallWithAfterAnySubgraph ==
    /\ CanCall
    /\ Finish("after_any_subgraph", NoName,
              with_after_any_subgraph(pluginBuilder, NextCallback))

CallWithBeforeSubgraph ==
    \E service_name \in Names :
        /\ CanCall
        /\ Finish("before_subgraph", service_name,
                  with_before_subgraph(pluginBuilder, service_name, NextCallback))

CallWithAfterSubgraph ==
    \E service_name \in Names :
        /\ CanCall
        /\ Finish("after_subgraph", service_name,
                  with_after_subgraph(pluginBuilder, service_name, NextCallback))

CallBuild ==
    /\ alive
    /\ pluginBuilder' = build(pluginBuilder)
    /\ UNCHANGED <<alive, calls>>
    /\ UNCHANGED <<stageVars, pipelineVars, inflight, buffer>>

-----------------------------------------------------------------------------
(* CallbackPlugin for CallbackPluginBuilder: the hooks *)

\* A request or a response is the sequence of marks left on it: a callback
\* transforms a value by appending its own number.
Call(callback, value) == Append(value, callback)

RECURSIVE Fold(_, _)
\* Iterator::fold(value, |v, callback| callback(v))
Fold(callbacks, value) ==
    IF callbacks = <<>> THEN value
    ELSE Fold(Tail(callbacks), Call(Head(callbacks), value))

\* Some(callback) as the list of callbacks to run, None as the empty list.
Opt(callback) == IF callback # None THEN <<callback>> ELSE <<>>

\* The callbacks each hook runs, in the order it runs them.
before_router_run(self) == Opt(self.before_router)
after_router_run(self) == Opt(self.after_router)
before_query_planning_run(self) == Opt(self.before_query_planning)
after_query_planning_run(self) == Opt(self.after_query_planning)
before_execution_run(self) == Opt(self.before_execution)
after_execution_run(self) == Opt(self.after_execution)

\* before_subgraph running the specific hook ahead of the before-any hooks.
before_subgraph_run_specific_first(self, name) ==
    Opt(self.before_subgraph[name]) \o self.before_any_subgraph

\* fn before_subgraph: the before-any hooks, then the specific hook
before_subgraph_run(self, name) ==
    self.before_any_subgraph \o Opt(self.before_subgraph[name])

\* after_subgraph running the hooks of every entry of the map instead of
\* the one of get(name).
after_subgraph_run_every_name(self, name) ==
    Opt(self.after_subgraph["books"]) \o Opt(self.after_subgraph["authors"])
        \o self.after_any_subgraph

\* fn after_subgraph: the specific hook, then the after-any hooks
after_subgraph_run(self, name) ==
    Opt(self.after_subgraph[name]) \o self.after_any_subgraph

\* before_router whose else branch returns an empty request instead of
\* the one it was given.
before_router_drops(self, router_request) ==
    IF self.before_router # None
    THEN Call(self.before_router, router_request)
    ELSE <<>>

\* fn before_router .. fn after_subgraph of impl CallbackPlugin
before_router(self, router_request) == Fold(before_router_run(self), router_request)
after_router(self, router_response) == Fold(after_router_run(self), router_response)
before_query_planning(self, router_request) ==
    Fold(before_query_planning_run(self), router_request)
after_query_planning(self, planned_request) ==
    Fold(after_query_planning_run(self), planned_request)
before_execution(self, planned_request) ==
    Fold(before_execution_run(self), planned_request)
after_execution(self, router_response) ==
    Fold(after_execution_run(self), router_response)
before_subgraph(self, name, subgraph_request) ==
    Fold(before_subgraph_run(self, name), subgraph_request)
after_subgraph(self, name, router_response) ==
    Fold(after_subgraph_run(self, name), router_response)

\* The callbacks the hook named hook of self runs.
HookRun(self, hook, name) ==
    CASE hook = "before_router" -> before_router_run(self)
      [] hook = "after_router" -> after_router_run(self)
      [] hook = "before_query_planning" -> before_query_planning_run(self)
      [] hook = "after_query_planning" -> after_query_planning_run(self)
      [] hook = "before_execution" -> before_execution_run(self)
      [] hook = "after_execution" -> after_execution_run(self)
      [] hook = "before_subgraph" -> before_subgraph_run(self, name)
      [] hook = "after_subgraph" -> after_subgraph_run(self, name)

\* The hook named hook of self, applied to value.
Hook(self, hook, name, value) ==
    CASE hook = "before_router" -> before_router(self, value)
      [] hook = "after_router" -> after_router(self, value)
      [] hook = "before_query_planning" -> before_query_planning(self, value)
      [] hook = "after_query_planning" -> after_query_planning(self, value)
      [] hook = "before_execution" -> before_execution(self, value)
      [] hook = "after_execution" -> after_execution(self, value)
      [] hook = "before_subgraph" -> before_subgraph(self, name, value)
      [] hook = "after_subgraph" -> after_subgraph(self, name, value)

-----------------------------------------------------------------------------
(* impl Plugin for CallbackPluginImplementation: the decoration *)

Stages == {"router", "query_planning", "execution", "subgraph"}

\* A composition that puts the new layer under the layers already there.
ServiceBuilder_innermost(layer, service) == <<layer>> \o service

\* ServiceBuilder::new().map_request(f).map_response(g).service(service):
\* the new layer is the outermost one of the service it returns.
ServiceBuilder(layer, service) == Append(service, layer)

\* The layer of one plugin: the two clones of self, the hook each closure
\* calls, and the name the subgraph closures captured.
Layer(self, f, g, name) ==
    [clone_for_before |-> self, clone_for_after |-> self,
     map_request |-> f, map_response |-> g, name |-> name]

router_service(self, service) ==
    ServiceBuilder(Layer(self, "before_router", "after_router", NoName), service)

query_planning_service(self, service) ==
    ServiceBuilder(Layer(self, "before_query_planning", "after_query_planning", NoName),
                   service)

\* execution_service with the two hooks taken for one another.
execution_service_swapped(self, service) ==
    ServiceBuilder(Layer(self, "after_execution", "before_execution", NoName), service)

execution_service(self, service) ==
    ServiceBuilder(Layer(self, "before_execution", "after_execution", NoName), service)

subgraph_service(self, name, service) ==
    ServiceBuilder(Layer(self, "before_subgraph", "after_subgraph", name), service)

\* The Plugin method of the stage st.
PluginService(self, st, name, service) ==
    CASE st = "router" -> router_service(self, service)
      [] st = "query_planning" -> query_planning_service(self, service)
      [] st = "execution" -> execution_service(self, service)
      [] st = "subgraph" -> subgraph_service(self, name, service)

\* Result<Response, BoxError>, and the unwinding of a callback that panicked.
Ok(value) == [kind |-> "ok", val |-> value, err |-> ""]
Err(e) == [kind |-> "err", val |-> <<>>, err |-> e]
Unwind(hook) == [kind |-> "panic", val |-> <<>>, err |-> hook]
NoResult == [kind |-> "none", val |-> <<>>, err |-> ""]

\* The closure given to map_request: it maps every request.
map_request(layer, request) ==
    Hook(layer.clone_for_before, layer.map_request, layer.name, request)

\* A response layer that also maps a failure, turning it into a response.
map_response_recovers(layer, res) ==
    Ok(Hook(layer.clone_for_after, layer.map_response, layer.name, res.val))

\* The closure given to map_response: it maps a successful response only,
\* a failure of the inner service passes unchanged.
map_response(layer, res) ==
    IF res.kind = "ok"
    THEN Ok(Hook(layer.clone_for_after, layer.map_response, layer.name, res.val))
    ELSE res

\* The callbacks map_request and map_response call on the way.
RequestRun(layer) == HookRun(layer.clone_for_before, layer.map_request, layer.name)
ResponseRun_always(layer, res) ==
    HookRun(layer.clone_for_after, layer.map_response, layer.name)
ResponseRun(layer, res) ==
    IF res.kind = "ok"
    THEN HookRun(layer.clone_for_after, layer.map_response, layer.name)
    ELSE <<>>

-----------------------------------------------------------------------------
(* The plugins of a pipeline: builders filled by setter calls *)

Setter(s, n) == [setter |-> s, name |-> n]

\* One setter call on self, registering the callback numbered callback.
RunSetter(self, c, callback) ==
    CASE c.setter \in SingleHooks -> with(self, c.setter, callback)
      [] c.setter = "before_any_subgraph" -> with_before_any_subgraph(self, callback)
      [] c.setter = "after_any_subgraph" -> with_after_any_subgraph(self, callback)
      [] c.setter = "before_subgraph" -> with_before_subgraph(self, c.name, callback)
      [] c.setter = "after_subgraph" -> with_after_subgraph(self, c.name, callback)

RECURSIVE Chain(_, _, _)
\* builder().with_..(..).with_..(..).build(): the callbacks are numbered
\* after first, in the order of the calls.
Chain(self, cs, first) ==
    IF cs = <<>> THEN build(self)
    ELSE Chain(RunSetter(self, Head(cs), first + 1).self, Tail(cs), first + 1)

\* The setter chains the plugins are built by: no hook at all, the six
\* single-valued hooks, the backend hooks of "books", and two mixed ones.
ChainNone == <<>>
ChainStages ==
    << Setter("before_router", NoName), Setter("after_router", NoName),
       Setter("before_query_planning", NoName), Setter("after_query_planning", NoName),
       Setter("before_execution", NoName), Setter("after_execution", NoName) >>
ChainBackends ==
    << Setter("before_any_subgraph", NoName), Setter("before_subgraph", "books"),
       Setter("after_any_subgraph", NoName), Setter("before_any_subgraph", NoName),
       Setter("after_subgraph", "books"), Setter("after_any_subgraph", NoName) >>
ChainBefore ==
    << Setter("before_router", NoName), Setter("after_query_planning", NoName),
       Setter("before_subgraph", "authors"), Setter("after_any_subgraph", NoName),
       Setter("before_execution", NoName) >>
ChainAfter ==
    << Setter("after_router", NoName), Setter("before_query_planning", NoName),
       Setter("after_execution", NoName), Setter("after_subgraph", "authors"),
       Setter("before_any_subgraph", NoName) >>

Chains == {ChainNone, ChainStages, ChainBackends, ChainBefore, ChainAfter}

\* The plugins built by n chains of cs, one per plugin.
Built(cs, n) == { [i \in 1..n |-> Chain(builder, c[i], 10 * i)] : c \in [1..n -> cs] }

\* The plugin lists: the callbacks of the plugin registered i-th are numbered
\* from 10 * i + 1, so that every callback of a pipeline has a number of its own.
PluginLists == UNION { Built(Chains, n) : n \in 0..MaxPlugins }

-----------------------------------------------------------------------------
(* One stage, decorated by the plugins and invoked *)

\* The mark the base service leaves on a request it serves.
BaseMark == 0

\* The failures a base service returns.
Errors == {"unreachable", "refused"}

\* The requests: graphql::Request { body: "Hello1" }, and a second one.
Requests == { <<1>>, <<2>> }

\* Plugins are applied to the base service one at a time, in registration
\* order: each application wraps the service decorated so far.
ApplyPlugin ==
    /\ pc = "assemble"
    /\ applied < Len(plugins)
    /\ decorated' = PluginService(plugins[applied + 1], stage, sname, decorated)
    /\ applied' = applied + 1
    /\ UNCHANGED <<plugins, stage, sname, pc, depth, req0, val, baseReq, baseRes,
                   result, log>>
    /\ UNCHANGED <<builderVars, pipelineVars, inflight, buffer>>

\* service.call(request) on the decorated service.
Invoke ==
    /\ pc = "assemble"
    /\ applied = Len(plugins)
    /\ \E request \in Requests :
        /\ req0' = request
        /\ val' = request
    /\ depth' = Len(decorated)
    /\ pc' = IF Len(decorated) = 0 THEN "base" ELSE "request"
    /\ UNCHANGED <<plugins, stage, sname, decorated, applied, baseReq, baseRes,
                   result, log>>
    /\ UNCHANGED <<builderVars, pipelineVars, inflight, buffer>>

\* MapRequest::call of the layer at depth: the closure maps the request and
\* the inner service is called with what it returns.
MapRequestReturns ==
    /\ pc = "request"
    /\ val' = map_request(decorated[depth], val)
    /\ log' = log \o RequestRun(decorated[depth])
    /\ depth' = depth - 1
    /\ pc' = IF depth = 1 THEN "base" ELSE "request"
    /\ UNCHANGED <<plugins, stage, sname, decorated, applied, req0, baseReq, baseRes,
                   result>>
    /\ UNCHANGED <<builderVars, pipelineVars, inflight, buffer>>

\* A callback is a Fn(Request) -> Request: it has no failure to return, and
\* fails by panicking. The panic unwinds out of call(), past every layer.
MapRequestPanics ==
    /\ pc = "request"
    /\ \E k \in 1..Len(RequestRun(decorated[depth])) :
        log' = log \o SubSeq(RequestRun(decorated[depth]), 1, k)
    /\ result' = Unwind(decorated[depth].map_request)
    /\ pc' = "done"
    /\ UNCHANGED <<plugins, stage, sname, decorated, applied, depth, req0, val,
                   baseReq, baseRes>>
    /\ UNCHANGED <<builderVars, pipelineVars, inflight, buffer>>

\* The base service serves the request, or fails.
BaseCall ==
    /\ pc = "base"
    /\ baseReq' = val
    /\ \E r \in {Ok(Append(val, BaseMark))} \cup {Err(e) : e \in Errors} :
        /\ baseRes' = r
        /\ result' = r
    /\ log' = Append(log, BaseMark)
    /\ depth' = 1
    /\ pc' = IF Len(decorated) = 0 THEN "done" ELSE "response"
    /\ UNCHANGED <<plugins, stage, sname, decorated, applied, req0, val>>
    /\ UNCHANGED <<builderVars, pipelineVars, inflight, buffer>>

\* MapResponse of the layer at depth, on the result of the inner service.
MapResponseReturns ==
    /\ pc = "response"
    /\ result' = map_response(decorated[depth], result)
    /\ log' = log \o ResponseRun(decorated[depth], result)
    /\ depth' = depth + 1
    /\ pc' = IF depth = Len(decorated) THEN "done" ELSE "response"
    /\ UNCHANGED <<plugins, stage, sname, decorated, applied, req0, val, baseReq,
                   baseRes>>
    /\ UNCHANGED <<builderVars, pipelineVars, inflight, buffer>>

MapResponsePanics ==
    /\ pc = "response"
    /\ \E k \in 1..Len(ResponseRun(decorated[depth], result)) :
        log' = log \o SubSeq(ResponseRun(decorated[depth], result), 1, k)
    /\ result' = Unwind(decorated[depth].map_response)
    /\ pc' = "done"
    /\ UNCHANGED <<plugins, stage, sname, decorated, applied, depth, req0, val,
                   baseReq, baseRes>>
    /\ UNCHANGED <<builderVars, pipelineVars, inflight, buffer>>

StageIdle ==
    /\ decorated = <<>>
    /\ applied = 0
    /\ pc = "assemble"
    /\ depth = 0
    /\ req0 = <<>>
    /\ val = <<>>
    /\ baseReq = <<>>
    /\ baseRes = NoResult
    /\ result = NoResult
    /\ log = <<>>

\* No plan yet: the planner has not answered.
NoPlan == <<NoName>>

\* ServiceBuilder::new().buffer(100): the bound of the queue.
BufferBound == 100

\* Buffer::new: nothing queued, nobody pending, the worker idle.
BufferIdle == buffer = [queued |-> 0, pending |-> 0, late |-> 0, calling |-> 0]

\* No request has been received yet.
RequestsIdle ==
    inflight = [r \in 1..MaxRequests |-> [at |-> "idle", calls |-> <<>>, response |-> "none"]]

PipelineIdle ==
    /\ ppc = "idle"
    /\ pval = <<>>
    /\ plan = NoPlan
    /\ fanout = <<>>
    /\ results = <<>>
    /\ presult = NoResult
    /\ perrors = <<>>
    /\ plog = <<>>
    /\ BufferIdle
    /\ RequestsIdle

BuilderIdle ==
    /\ pluginBuilder = builder
    /\ alive = TRUE
    /\ calls = <<>>

StageInit ==
    /\ BuilderIdle
    /\ plugins \in PluginLists
    /\ stage \in Stages
    /\ sname \in (IF stage = "subgraph" THEN Names ELSE {NoName})
    /\ StageIdle
    /\ PipelineIdle

StageNext ==
    \/ ApplyPlugin
    \/ Invoke
    \/ MapRequestReturns
    \/ MapRequestPanics
    \/ BaseCall
    \/ MapResponseReturns
    \/ MapResponsePanics

-----------------------------------------------------------------------------
(* The pipeline of one request: router, query planning, execution, subgraphs *)

\* The marks the planner and the merge of the partial responses leave.
PlanMark == -1
MergeMark == -2

RECURSIVE Decorate(_, _, _, _)
\* The stage st decorated by the plugins ps, applied in registration order.
Decorate(ps, st, name, service) ==
    IF ps = <<>> THEN service
    ELSE Decorate(Tail(ps), st, name, PluginService(Head(ps), st, name, service))

Decorated(st, name) == Decorate(plugins, st, name, <<>>)

Outermost(service) == service[Len(service)]
Inner(service) == SubSeq(service, 1, Len(service) - 1)

RECURSIVE RequestPath(_, _), RequestPathRun(_), ResponsePath(_, _), ResponsePathRun(_, _)
\* The request as the wrapped service receives it: every map_request layer
\* maps it on the way in, the outermost first. The callbacks do not suspend.
RequestPath(service, request) ==
    IF service = <<>> THEN request
    ELSE RequestPath(Inner(service), map_request(Outermost(service), request))

RequestPathRun(service) ==
    IF service = <<>> THEN <<>>
    ELSE RequestRun(Outermost(service)) \o RequestPathRun(Inner(service))

\* The result as the caller receives it: every map_response layer maps it on
\* the way out, the innermost first.
ResponsePath(service, res) ==
    IF service = <<>> THEN res
    ELSE map_response(Outermost(service), ResponsePath(Inner(service), res))

ResponsePathRun(service, res) ==
    IF service = <<>> THEN <<>>
    ELSE ResponsePathRun(Inner(service), res)
             \o ResponseRun(Outermost(service), ResponsePath(Inner(service), res))

\* subgraph_services(hashmap! {..}): the backend registry.
Registry == {"books", "authors"}

\* The backend names a plan may use: those of the registry, and one the
\* registry does not have.
PlanNames == Registry \cup {"reviews"}

\* The plans the planner may produce: backend calls by name, a name zero,
\* one or several times.
Plans == UNION { [1..n -> PlanNames] : n \in 0..MaxPlanCalls }

\* The calls of a plan whose backend the registry does not have, and the
\* failure that names the backend of the first of them.
Unresolved_first(p) == {c \in 1..Len(p) : c = 1 /\ p[c] \notin Registry}
Unresolved(p) == {c \in 1..Len(p) : p[c] \notin Registry}
Unresolvable(name) == "unresolvable backend: " \o name
FirstUnresolved(p) == p[CHOOSE c \in Unresolved(p) : \A d \in Unresolved(p) : c <= d]

\* The plugins of the pipeline: each built by the chain that sets a hook for
\* every stage, the any-backend hooks and the hooks of "books".
ChainWhole ==
    ChainStages \o
    << Setter("before_any_subgraph", NoName), Setter("before_subgraph", "books"),
       Setter("after_subgraph", "books"), Setter("after_any_subgraph", NoName) >>
PipelinePlugins == UNION { Built({ChainWhole}, n) : n \in 0..MaxPlugins }

\* The request the pipeline is called with.
PipelineRequests == { <<1>> }

\* router.call(request): the request enters the decorated router stage.
Receive ==
    /\ ppc = "idle"
    /\ \E request \in PipelineRequests :
        /\ req0' = request
        /\ pval' = request
    /\ ppc' = "router"
    /\ UNCHANGED <<plan, fanout, results, presult, perrors, plog>>
    /\ UNCHANGED <<builderVars, plugins, stageRunVars, inflight, buffer>>

RouterRequest ==
    /\ ppc = "router"
    /\ pval' = RequestPath(Decorated("router", NoName), pval)
    /\ plog' = plog \o RequestPathRun(Decorated("router", NoName))
    /\ ppc' = "planning"
    /\ UNCHANGED <<req0, plan, fanout, results, presult, perrors>>
    /\ UNCHANGED <<builderVars, plugins, stageRunVars, inflight, buffer>>

PlanningRequest ==
    /\ ppc = "planning"
    /\ pval' = RequestPath(Decorated("query_planning", NoName), pval)
    /\ plog' = plog \o RequestPathRun(Decorated("query_planning", NoName))
    /\ ppc' = "planner"
    /\ UNCHANGED <<req0, plan, fanout, results, presult, perrors>>
    /\ UNCHANGED <<builderVars, plugins, stageRunVars, inflight, buffer>>

\* The planner maps the request to a plan, or fails.
Planner ==
    /\ ppc = "planner"
    /\ \/ \E p \in Plans :
            /\ plan' = p
            /\ presult' = Ok(Append(pval, PlanMark))
       \/ \E e \in Errors :
            /\ plan' = plan
            /\ presult' = Err(e)
    /\ plog' = plog \o <<PlanMark>>
    /\ ppc' = "planned"
    /\ UNCHANGED <<req0, pval, fanout, results, perrors>>
    /\ UNCHANGED <<builderVars, plugins, stageRunVars, inflight, buffer>>

\* The planned request leaves the decorated planning stage; a failure of
\* planning is the failure of the router's base service.
PlanningResponse ==
    /\ ppc = "planned"
    /\ presult' = ResponsePath(Decorated("query_planning", NoName), presult)
    /\ plog' = plog \o ResponsePathRun(Decorated("query_planning", NoName), presult)
    /\ pval' = IF presult'.kind = "ok" THEN presult'.val ELSE pval
    /\ ppc' = IF presult'.kind = "ok" THEN "execution" ELSE "routed"
    /\ UNCHANGED <<req0, plan, fanout, results, perrors>>
    /\ UNCHANGED <<builderVars, plugins, stageRunVars, inflight, buffer>>

\* The planned request enters the decorated execution stage, which resolves
\* every backend name of the plan in the registry and then issues every
\* backend call of the plan; with a name the registry does not have it issues
\* none and fails.
ExecutionRequest ==
    /\ ppc = "execution"
    /\ pval' = RequestPath(Decorated("execution", NoName), pval)
    /\ plog' = plog \o RequestPathRun(Decorated("execution", NoName))
    /\ IF Unresolved(plan) = {}
       THEN /\ fanout' = [c \in 1..Len(plan) |->
                 [at |-> "issued", val |-> pval', res |-> NoResult, log |-> <<>>]]
            /\ presult' = presult
            /\ ppc' = "fanout"
       ELSE /\ fanout' = <<>>
            /\ presult' = Err(Unresolvable(FirstUnresolved(plan)))
            /\ ppc' = "executed"
    /\ results' = <<>>
    /\ UNCHANGED <<req0, plan, perrors>>
    /\ UNCHANGED <<builderVars, plugins, stageRunVars, inflight, buffer>>

\* The backend call c enters the decorated stage of its backend.
SubgraphRequest(c) ==
    /\ ppc = "fanout"
    /\ fanout[c].at = "issued"
    /\ plan[c] \in Registry
    /\ fanout' = [fanout EXCEPT
                    ![c].val = RequestPath(Decorated("subgraph", plan[c]), @),
                    ![c].log = @ \o RequestPathRun(Decorated("subgraph", plan[c])),
                    ![c].at = "sent"]
    /\ UNCHANGED <<req0, ppc, pval, plan, results, presult, perrors, plog>>
    /\ UNCHANGED <<builderVars, plugins, stageRunVars, inflight, buffer>>

\* The identity a result is tagged with: that of its call.
Tag_backend(c) == CHOOSE d \in 1..Len(plan) :
                      plan[d] = plan[c] /\ \A e \in 1..Len(plan) : plan[e] = plan[c] => d <= e
Tag(c) == c

\* The backend answers the call c, or fails, and the answer leaves the
\* decorated stage of its backend: the map_response closures run as the
\* future of the base service resolves. The answer arrives at the fan-out as
\* the result of the call; the calls complete in any order.
SubgraphBase(c) ==
    /\ ppc = "fanout"
    /\ fanout[c].at = "sent"
    /\ \E r \in {Ok(Append(fanout[c].val, BaseMark))} \cup {Err(e) : e \in Errors} :
        /\ fanout' = [fanout EXCEPT
                        ![c].res = r,
                        ![c].log = Append(@, BaseMark)
                                     \o ResponsePathRun(Decorated("subgraph", plan[c]), r),
                        ![c].at = "done"]
        /\ results' = Append(results,
               [call |-> Tag(c),
                res |-> ResponsePath(Decorated("subgraph", plan[c]), r)])
    /\ UNCHANGED <<req0, ppc, pval, plan, presult, perrors, plog>>
    /\ UNCHANGED <<builderVars, plugins, stageRunVars, inflight, buffer>>

\* The result of the call c among the collected results: the one tagged
\* with c, wherever it arrived.
ResultOf_arrival(rs, c) == IF c <= Len(rs) THEN rs[c].res ELSE NoResult
ResultOf(rs, c) ==
    IF \E i \in 1..Len(rs) : rs[i].call = c
    THEN rs[CHOOSE i \in 1..Len(rs) : rs[i].call = c].res
    ELSE NoResult

RECURSIVE Payload(_, _), ErrorEntries(_, _)
\* The partial payloads of the successful calls, in the order of the calls
\* of the plan.
Payload(rs, c) ==
    IF c > Len(plan) THEN <<>>
    ELSE (IF ResultOf(rs, c).kind = "ok" THEN ResultOf(rs, c).val ELSE <<>>)
             \o Payload(rs, c + 1)

\* One error entry per failed call, tagged with the call and its backend.
ErrorEntries(rs, c) ==
    IF c > Len(plan) THEN <<>>
    ELSE (IF ResultOf(rs, c).kind = "err"
          THEN << [call |-> c, backend |-> plan[c], kind |-> ResultOf(rs, c).err] >>
          ELSE <<>>)
             \o ErrorEntries(rs, c + 1)

\* The merge waits for every call to end; with no successful call at all the
\* request fails as a whole.
Merge ==
    /\ ppc = "fanout"
    /\ \A c \in 1..Len(plan) : fanout[c].at = "done"
    /\ IF \E c \in 1..Len(plan) : ResultOf(results, c).kind = "ok"
       THEN /\ presult' = Ok(Append(Payload(results, 1), MergeMark))
            /\ perrors' = ErrorEntries(results, 1)
       ELSE /\ presult' = Err("fanout")
            /\ perrors' = perrors
    /\ plog' = plog \o <<MergeMark>>
    /\ ppc' = "executed"
    /\ UNCHANGED <<req0, pval, plan, fanout, results>>
    /\ UNCHANGED <<builderVars, plugins, stageRunVars, inflight, buffer>>

\* The aggregate response leaves the decorated execution stage.
ExecutionResponse ==
    /\ ppc = "executed"
    /\ presult' = ResponsePath(Decorated("execution", NoName), presult)
    /\ plog' = plog \o ResponsePathRun(Decorated("execution", NoName), presult)
    /\ ppc' = "routed"
    /\ UNCHANGED <<req0, pval, plan, fanout, results, perrors>>
    /\ UNCHANGED <<builderVars, plugins, stageRunVars, inflight, buffer>>

\* The response, or the failure, leaves the decorated router stage.
RouterResponse ==
    /\ ppc = "routed"
    /\ presult' = ResponsePath(Decorated("router", NoName), presult)
    /\ plog' = plog \o ResponsePathRun(Decorated("router", NoName), presult)
    /\ ppc' = "done"
    /\ UNCHANGED <<req0, pval, plan, fanout, results, perrors>>
    /\ UNCHANGED <<builderVars, plugins, stageRunVars, inflight, buffer>>

StageUnused ==
    /\ stage = "router"
    /\ sname = NoName
    /\ decorated = <<>>
    /\ applied = 0
    /\ pc = "unused"
    /\ depth = 0
    /\ val = <<>>
    /\ baseReq = <<>>
    /\ baseRes = NoResult
    /\ result = NoResult
    /\ log = <<>>

PipelineInit ==
    /\ BuilderIdle
    /\ StageUnused
    /\ plugins \in PipelinePlugins
    /\ req0 = <<>>
    /\ PipelineIdle

PipelineNext ==
    \/ Receive
    \/ RouterRequest
    \/ PlanningRequest
    \/ Planner
    \/ PlanningResponse
    \/ ExecutionRequest
    \/ \E c \in 1..Len(fanout) : SubgraphRequest(c)
    \/ \E c \in 1..Len(fanout) : SubgraphBase(c)
    \/ Merge
    \/ ExecutionResponse
    \/ RouterResponse

-----------------------------------------------------------------------------
(* ServiceBuilder::new().buffer(100).service(..): the queue in front of the
   query planner and of the execution service *)

otherVars == <<builderVars, stageVars, pipelineVars, inflight>>

\* A caller finds a free slot: poll_ready is Ready and call() queues the
\* request for the worker.
PollReadyAcquires ==
    /\ buffer.queued < BufferBound
    /\ buffer.pending = 0
    /\ buffer' = [buffer EXCEPT !.queued = @ + 1]
    /\ UNCHANGED otherVars

\* A caller finds the queue full: poll_ready is Pending and the caller waits
\* for a slot; its call neither fails nor is dropped.
PollReadyPending ==
    /\ buffer.queued = BufferBound
    /\ buffer.pending < MaxPending
    /\ buffer' = [buffer EXCEPT !.pending = @ + 1]
    /\ UNCHANGED otherVars

\* A slot was freed: a pending caller is woken, poll_ready is Ready and its
\* request is queued.
PendingAcquires ==
    /\ buffer.pending > 0
    /\ buffer.queued < BufferBound
    /\ buffer' = [buffer EXCEPT !.pending = @ - 1, !.queued = @ + 1,
                                !.late = IF @ < MaxPending THEN @ + 1 ELSE @]
    /\ UNCHANGED otherVars

\* The worker, the one task that owns the service, takes the next request
\* and calls the service; this frees the slot of the request.
WorkerCalls ==
    /\ buffer.calling = 0
    /\ buffer.queued > 0
    /\ buffer' = [buffer EXCEPT !.queued = @ - 1, !.calling = 1]
    /\ UNCHANGED otherVars

\* The call returns the response future, which the worker hands to the caller.
WorkerHandsOver ==
    /\ buffer.calling = 1
    /\ buffer' = [buffer EXCEPT !.calling = 0]
    /\ UNCHANGED otherVars

BufferInit ==
    /\ BuilderIdle
    /\ StageUnused
    /\ plugins = <<>>
    /\ req0 = <<>>
    /\ PipelineIdle

BufferNext ==
    \/ PollReadyAcquires
    \/ PollReadyPending
    \/ PendingAcquires
    \/ WorkerCalls
    \/ WorkerHandsOver

-----------------------------------------------------------------------------
(* Concurrent requests and the cancellation of one of them *)

cancelVars == <<builderVars, stageVars, pipelineVars, buffer>>

\* How a request ends without a response: its caller drops it, or it times out.
Aborts == {"cancelled", "timed out"}

\* The request r fans out: its backend calls are issued and pending.
Fanout(r) ==
    /\ inflight[r].at = "idle"
    /\ \E n \in 1..MaxFanout :
        inflight' = [inflight EXCEPT ![r].at = "fanout",
                                     ![r].calls = [c \in 1..n |-> "pending"]]
    /\ UNCHANGED cancelVars

\* The backend answers the call c of the request r, with a payload or a failure.
BackendAnswers(r, c) ==
    /\ inflight[r].at = "fanout"
    /\ inflight[r].calls[c] = "pending"
    /\ inflight' = [inflight EXCEPT ![r].calls[c] = "answered"]
    /\ UNCHANGED cancelVars

\* Every call of the request r is answered: the merge produces its response.
MergeResults(r) ==
    /\ inflight[r].at = "fanout"
    /\ \A c \in 1..Len(inflight[r].calls) : inflight[r].calls[c] = "answered"
    /\ inflight' = [inflight EXCEPT ![r].at = "merged", ![r].response = "aggregate"]
    /\ UNCHANGED cancelVars

\* The calls of a request that is given up: the pending ones are cancelled.
CancelPending(cs) ==
    [c \in 1..Len(cs) |-> IF cs[c] = "pending" THEN "cancelled" ELSE cs[c]]

\* The requests after the request r is given up.
Aborted_all(reqs, r, how) ==
    [q \in DOMAIN reqs |->
        IF q = r THEN [reqs[q] EXCEPT !.at = how, !.calls = CancelPending(@)]
        ELSE [reqs[q] EXCEPT !.calls = CancelPending(@)]]
Aborted(reqs, r, how) ==
    [reqs EXCEPT ![r].at = how, ![r].calls = CancelPending(@)]

\* The caller of the request r drops it while its calls are under way.
Cancel(r) ==
    /\ inflight[r].at = "fanout"
    /\ inflight' = Aborted(inflight, r, "cancelled")
    /\ UNCHANGED cancelVars

\* The request r times out while its calls are under way.
Timeout(r) ==
    /\ inflight[r].at = "fanout"
    /\ inflight' = Aborted(inflight, r, "timed out")
    /\ UNCHANGED cancelVars

CancelInit ==
    /\ BuilderIdle
    /\ StageUnused
    /\ plugins = <<>>
    /\ req0 = <<>>
    /\ PipelineIdle

CancelNext ==
    \/ \E r \in 1..MaxRequests : Fanout(r)
    \/ \E r \in 1..MaxRequests : \E c \in 1..Len(inflight[r].calls) : BackendAnswers(r, c)
    \/ \E r \in 1..MaxRequests : MergeResults(r)
    \/ \E r \in 1..MaxRequests : Cancel(r)
    \/ \E r \in 1..MaxRequests : Timeout(r)

BuilderInit ==
    /\ BuilderIdle
    /\ plugins = <<>>
    /\ stage = "router"
    /\ sname = NoName
    /\ StageIdle
    /\ PipelineIdle

BuilderNext ==
    \/ CallBuilder
    \/ CallWith
    \/ CallWithBeforeAnySubgraph
    \/ CallWithAfterAnySubgraph
    \/ CallWithBeforeSubgraph
    \/ CallWithAfterSubgraph
    \/ CallBuild

SpecBuilder == BuilderInit /\ [][BuilderNext]_vars

SpecStage == StageInit /\ [][StageNext]_vars

SpecPipeline == PipelineInit /\ [][PipelineNext]_vars

\* A request that is not cancelled, whose hooks, planner and backends all
\* return: every step of it that can be taken is taken in the end.
SpecPipelineFair == PipelineInit /\ [][PipelineNext]_vars /\ WF_vars(PipelineNext)

SpecBuffer == BufferInit /\ [][BufferNext]_vars

SpecCancel == CancelInit /\ [][CancelNext]_vars

-----------------------------------------------------------------------------
(* The order of the hooks of a decorated stage *)

\* The hooks the Plugin method of a stage puts before and after the service.
BeforeHook(st) ==
    CASE st = "router" -> "before_router"
      [] st = "query_planning" -> "before_query_planning"
      [] st = "execution" -> "before_execution"
      [] st = "subgraph" -> "before_subgraph"
AfterHook(st) ==
    CASE st = "router" -> "after_router"
      [] st = "query_planning" -> "after_query_planning"
      [] st = "execution" -> "after_execution"
      [] st = "subgraph" -> "after_subgraph"

BeforeHooks == {BeforeHook(st) : st \in Stages}

\* The callbacks of the plugin registered i-th for the stage invoked.
PluginBefore(i) == HookRun(plugins[i], BeforeHook(stage), sname)
PluginAfter(i) == HookRun(plugins[i], AfterHook(stage), sname)

RECURSIVE BeforeAscending(_), BeforeDescending(_), AfterAscending(_), AfterDescending(_)
\* P1.before .. Pk.before, Pk.before .. P1.before, and the same of the after-hooks
BeforeAscending(k) == IF k = 0 THEN <<>> ELSE BeforeAscending(k - 1) \o PluginBefore(k)
BeforeDescending(k) == IF k = 0 THEN <<>> ELSE PluginBefore(k) \o BeforeDescending(k - 1)
AfterAscending(k) == IF k = 0 THEN <<>> ELSE AfterAscending(k - 1) \o PluginAfter(k)
AfterDescending(k) == IF k = 0 THEN <<>> ELSE PluginAfter(k) \o AfterDescending(k - 1)

IsPrefix(s, t) == Len(s) <= Len(t) /\ s = SubSeq(t, 1, Len(s))
\* The callbacks and marks that occur in a log.
Marks(l) == {l[i] : i \in 1..Len(l)}

Succeeded == pc = "done" /\ result.kind = "ok"

\* C1 (as stated): a successful invoke of a stage decorated by P1..Pn, applied
\* in registration order, runs the before-hooks in the order P1..Pn, then the
\* base stage, then the after-hooks in the order Pn..P1.
C1_RegistrationOrderFirst ==
    Succeeded =>
        log = BeforeAscending(Len(plugins)) \o <<BaseMark>> \o AfterDescending(Len(plugins))

\* C1 (amended): a successful invoke of a stage decorated by P1..Pn, applied in
\* registration order, runs the before-hooks in the order Pn..P1 (the plugin
\* applied last is the outermost), then the base stage, then the after-hooks in
\* the order P1..Pn, each hook exactly once; the response carries the mark of
\* every one of them in that order.
C1_LastAppliedIsOutermost ==
    Succeeded =>
        /\ log = BeforeDescending(Len(plugins)) \o <<BaseMark>> \o AfterAscending(Len(plugins))
        /\ result.val = req0 \o log

\* C1: a successful invoke through two or more plugins that each have a
\* before-hook and an after-hook for the stage.
C1_Witness ==
    /\ Succeeded
    /\ Len(plugins) >= 2
    /\ \A i \in 1..Len(plugins) : PluginBefore(i) # <<>> /\ PluginAfter(i) # <<>>

\* The order the claim C2 gives for one adapter and one backend name.
AnyNamedBaseNamedAny ==
    plugins[1].before_any_subgraph \o Opt(plugins[1].before_subgraph[sname])
        \o <<BaseMark>>
        \o Opt(plugins[1].after_subgraph[sname]) \o plugins[1].after_any_subgraph

OneAdapterOneBackend == Len(plugins) = 1 /\ stage = "subgraph"

\* C2 (as stated): every invoke of the backend stage decorated by one adapter
\* runs the any-backend before-hooks in registration order, the named
\* before-hook, the base stage, the named after-hook and the any-backend
\* after-hooks in registration order (of the invokes in which no callback
\* panics).
C2_EveryInvokeRunsAllHooks ==
    (OneAdapterOneBackend /\ pc = "done" /\ result.kind # "panic") =>
        log = AnyNamedBaseNamedAny

\* C2 (amended): every invoke that returns a success runs exactly that order;
\* an invoke that ends otherwise (the base stage failed, a callback panicked)
\* has run a prefix of it, and when the base stage fails no after-hook runs.
C2_SuccessfulInvokeRunsAllHooks ==
    OneAdapterOneBackend =>
        /\ IsPrefix(log, AnyNamedBaseNamedAny)
        /\ Succeeded => log = AnyNamedBaseNamedAny
        /\ (pc = "done" /\ baseRes.kind = "err") =>
               log = plugins[1].before_any_subgraph
                         \o Opt(plugins[1].before_subgraph[sname]) \o <<BaseMark>>

\* C2: a successful invoke of a backend whose adapter has two any-backend
\* hooks and a named hook on each side.
C2_Witness ==
    /\ OneAdapterOneBackend
    /\ Succeeded
    /\ Len(plugins[1].before_any_subgraph) >= 2
    /\ Len(plugins[1].after_any_subgraph) >= 2
    /\ plugins[1].before_subgraph[sname] # None
    /\ plugins[1].after_subgraph[sname] # None

\* The adapter has no hook set for the stage st (for a backend stage: no
\* any-backend hook and no hook named for the backend).
NoHookSet(self, st, name) ==
    CASE st = "router" -> self.before_router = None /\ self.after_router = None
      [] st = "query_planning" ->
            self.before_query_planning = None /\ self.after_query_planning = None
      [] st = "execution" -> self.before_execution = None /\ self.after_execution = None
      [] st = "subgraph" ->
            /\ self.before_any_subgraph = <<>> /\ self.after_any_subgraph = <<>>
            /\ self.before_subgraph[name] = None /\ self.after_subgraph[name] = None

Undecorated == \A i \in 1..Len(plugins) : NoHookSet(plugins[i], stage, sname)

\* C6: a stage decorated by adapters that have no hook set for it passes the
\* request to the base stage unmodified and returns the base stage's result.
C6_UnsetHooksAreIdentity ==
    (Undecorated /\ pc = "done") =>
        /\ baseReq = req0
        /\ result = baseRes
        /\ log = <<BaseMark>>

\* C6: a finished invoke through an adapter that has hooks, none of them for
\* the stage invoked.
C6_Witness ==
    /\ Undecorated
    /\ Succeeded
    /\ \E i \in 1..Len(plugins) : plugins[i] # Default

\* C7: once the base stage has returned a failure, that same failure is what
\* travels back through every layer and what the caller receives.
C7_FailureIsNotSwallowed ==
    baseRes.kind = "err" => result = baseRes

\* C7: the failure of the base stage reached the caller through two or more
\* plugins that have an after-hook for the stage.
C7_Witness ==
    /\ pc = "done"
    /\ baseRes.kind = "err"
    /\ Len(plugins) >= 2
    /\ \A i \in 1..Len(plugins) : PluginAfter(i) # <<>>

\* C17: when the wrapped stage returns a failure, no after-hook of any plugin
\* runs for that request, for a backend stage neither the named after-hook
\* nor an any-backend one: the base stage is the last thing that ran and no
\* callback has touched the result, while the before-hooks of every plugin
\* did run.
C17_AfterHooksSkippedOnFailure ==
    baseRes.kind = "err" =>
        /\ log[Len(log)] = BaseMark
        /\ result.kind = "err"
        /\ result.val = <<>>
        /\ \A i \in 1..Len(plugins) :
               /\ Marks(PluginAfter(i)) \cap Marks(log) = {}
               /\ Marks(PluginBefore(i)) \subseteq Marks(log)

\* C17: the decorated stage of a backend has returned the failure of its
\* base stage; a plugin has a named and an any-backend after-hook for it, and
\* its before-hooks ran.
C17_Witness ==
    /\ pc = "done"
    /\ stage = "subgraph"
    /\ baseRes.kind = "err"
    /\ \E i \in 1..Len(plugins) :
           /\ plugins[i].after_subgraph[sname] # None
           /\ plugins[i].after_any_subgraph # <<>>
           /\ PluginBefore(i) # <<>>
           /\ Marks(PluginBefore(i)) \subseteq Marks(log)

\* A callback of a before-hook failed: its panic is unwinding to the caller.
BeforeHookFailed == result.kind = "panic" /\ result.err \in BeforeHooks

\* C8: when a before-hook fails, the stage it wraps is never invoked and the
\* caller of the decorated stage receives a failure of the stage.
C8_BeforeHookFailureIsStageFailure ==
    BeforeHookFailed =>
        /\ baseRes.kind = "none"
        /\ BaseMark \notin {log[i] : i \in 1..Len(log)}
        /\ pc = "done" => result.kind = "err"

-----------------------------------------------------------------------------
(* The hooks named for a backend *)

\* The callbacks a plugin has registered under the name of a backend.
NamedFor(self, name) ==
    Marks(Opt(self.before_subgraph[name])) \cup Marks(Opt(self.after_subgraph[name]))

RECURSIVE AnyBeforeDescending(_), AnyAfterAscending(_)
\* The any-backend hooks of Pk, .., P1, and of P1, .., Pk.
AnyBeforeDescending(k) ==
    IF k = 0 THEN <<>>
    ELSE plugins[k].before_any_subgraph \o AnyBeforeDescending(k - 1)
AnyAfterAscending(k) ==
    IF k = 0 THEN <<>>
    ELSE AnyAfterAscending(k - 1) \o plugins[k].after_any_subgraph

\* C18: on an invoke of the decorated stage of the backend Y no hook named
\* for another backend X runs; a successful invoke runs every any-backend
\* hook of every plugin; and when no plugin has a hook named for Y a
\* successful invoke runs exactly the any-backend before-hooks, the base
\* stage and the any-backend after-hooks.
C18_NamedHooksRunForTheirBackendOnly ==
    stage = "subgraph" =>
        /\ \A i \in 1..Len(plugins) : \A name \in Names \ {sname} :
               NamedFor(plugins[i], name) \cap Marks(log) = {}
        /\ Succeeded =>
               /\ \A i \in 1..Len(plugins) :
                      Marks(plugins[i].before_any_subgraph)
                          \cup Marks(plugins[i].after_any_subgraph) \subseteq Marks(log)
               /\ (\A i \in 1..Len(plugins) : NamedFor(plugins[i], sname) = {}) =>
                      log = AnyBeforeDescending(Len(plugins)) \o <<BaseMark>>
                                \o AnyAfterAscending(Len(plugins))

\* C18: a backend was invoked with success through a plugin that has
\* any-backend hooks and hooks named for another backend, and none for it.
C18_Witness ==
    /\ stage = "subgraph"
    /\ Succeeded
    /\ \E i \in 1..Len(plugins) : \E name \in Names \ {sname} :
           /\ plugins[i].before_subgraph[name] # None
           /\ plugins[i].after_subgraph[name] # None
           /\ plugins[i].before_any_subgraph # <<>>
           /\ plugins[i].after_any_subgraph # <<>>
    /\ \A i \in 1..Len(plugins) : NamedFor(plugins[i], sname) = {}

-----------------------------------------------------------------------------
(* The order of the stages of one request *)

RECURSIVE HooksDescending(_, _, _), HooksAscending(_, _, _)
\* The callbacks of the hook of Pk, .., P1, and of P1, .., Pk.
HooksDescending(hook, name, k) ==
    IF k = 0 THEN <<>>
    ELSE HookRun(plugins[k], hook, name) \o HooksDescending(hook, name, k - 1)
HooksAscending(hook, name, k) ==
    IF k = 0 THEN <<>>
    ELSE HooksAscending(hook, name, k - 1) \o HookRun(plugins[k], hook, name)

RequestTransform(hook) == HooksDescending(hook, NoName, Len(plugins))
ResponseTransform(hook) == HooksAscending(hook, NoName, Len(plugins))

\* The stages of a request up to the execution before-transform, and all of
\* them, the backend calls left out.
ThroughExecutionBefore ==
    RequestTransform("before_router") \o RequestTransform("before_query_planning")
        \o <<PlanMark>> \o ResponseTransform("after_query_planning")
        \o RequestTransform("before_execution")
AllStages ==
    ThroughExecutionBefore \o <<MergeMark>>
        \o ResponseTransform("after_execution") \o ResponseTransform("after_router")

\* The decorated stage of the backend of the call c, run to its end.
BackendStage(c) ==
    HooksDescending("before_subgraph", plan[c], Len(plugins)) \o <<BaseMark>>
        \o HooksAscending("after_subgraph", plan[c], Len(plugins))


\* C9: within one request the stages run in the order ingress before,
\* planning before, planner, planning after, execution before, the decorated
\* stage of each backend call of the plan, merge, execution after, ingress
\* after. No backend call starts before the execution before-transform, the
\* merge comes after every backend call has ended, execution never starts
\* without a plan, and the response transforms (backend, execution, ingress)
\* run in the reverse order of the request transforms of their stages.
C9_StagesRunInOrder ==
    /\ IsPrefix(plog, AllStages)
    /\ \A c \in 1..Len(fanout) :
        /\ IsPrefix(fanout[c].log, BackendStage(c))
        /\ IsPrefix(ThroughExecutionBefore, plog)
        /\ MergeMark \in Marks(plog) =>
               /\ fanout[c].at = "done"
               /\ BaseMark \in Marks(fanout[c].log)
               /\ fanout[c].res.kind = "ok" => fanout[c].log = BackendStage(c)
    /\ ppc \in {"execution", "fanout", "executed"} =>
           /\ plan # NoPlan
           /\ PlanMark \in Marks(plog)
           /\ Len(fanout) \in {0, Len(plan)}
    /\ (ppc = "done" /\ presult.kind = "ok") =>
           /\ plog = AllStages
           /\ Len(fanout) = Len(plan)

\* C9: a request answered with success, whose plan names two backends and
\* whose plugins have a callback at every hook point.
C9_Witness ==
    /\ ppc = "done"
    /\ presult.kind = "ok"
    /\ perrors = <<>>
    /\ {plan[c] : c \in 1..Len(plan)} = Names
    /\ \A h \in SingleHooks : RequestTransform(h) # <<>>
    /\ \A c \in 1..Len(plan) :
        /\ HooksDescending("before_subgraph", plan[c], Len(plugins)) # <<>>
        /\ HooksAscending("after_subgraph", plan[c], Len(plugins)) # <<>>

-----------------------------------------------------------------------------
(* The fan-out of one request *)

\* The calls of the fan-out whose backend answered with a failure.
FailedCalls == {c \in 1..Len(fanout) : fanout[c].res.kind = "err"}
Merged == MergeMark \in Marks(plog)

RECURSIVE SuccessfulPayloads(_)
\* What the successful calls from c on contribute: the answer of the backend
\* as the after-hooks of the backend stage leave it, in the order of the calls.
SuccessfulPayloads(c) ==
    IF c > Len(fanout) THEN <<>>
    ELSE (IF fanout[c].res.kind = "ok"
          THEN fanout[c].res.val \o HooksAscending("after_subgraph", plan[c], Len(plugins))
          ELSE <<>>)
             \o SuccessfulPayloads(c + 1)

\* C11: in a plan of k >= 2 backend calls of which exactly one fails, the
\* failure of the one call leaves every sibling call able to go on, in every
\* order of completion; when the merge is done all k calls were issued and
\* answered, the aggregate response carries the payloads of the k-1
\* successful calls merged, and its error list has exactly one entry, tagged
\* with the failed call, its backend and its failure.
C11_OneFailureOfManyIsOneErrorEntry ==
    \A f \in FailedCalls :
        (Len(plan) >= 2 /\ FailedCalls = {f}) =>
            /\ Len(fanout) = Len(plan)
            /\ ppc = "fanout" =>
                   \A c \in 1..Len(fanout) :
                       fanout[c].at # "done" =>
                           ENABLED (SubgraphRequest(c) \/ SubgraphBase(c))
            /\ Merged =>
                   /\ \A c \in 1..Len(fanout) :
                          fanout[c].at = "done" /\ BaseMark \in Marks(fanout[c].log)
                   /\ presult.kind = "ok"
                   /\ ppc = "executed" =>
                          presult.val = Append(SuccessfulPayloads(1), MergeMark)
                   /\ perrors = << [call |-> f, backend |-> plan[f],
                                    kind |-> fanout[f].res.err] >>

\* C11: the merge is done for a plan of two or more calls of which exactly
\* one failed, and the failure arrived before the result of any sibling.
C11_Witness ==
    /\ ppc = "executed"
    /\ Merged
    /\ Len(plan) >= 2
    /\ Cardinality(FailedCalls) = 1
    /\ results[1].res.kind = "err"

\* The plan names a backend the registry does not have.
NamesUnknownBackend == plan # NoPlan /\ \E c \in 1..Len(plan) : plan[c] \notin Registry
ExecutionEntered == ppc \in {"fanout", "executed", "routed", "done"} /\ plan # NoPlan

\* C12: when the plan names a backend that is not in the registry, the
\* request ends with the failure "unresolvable backend" that names a backend
\* of the plan the registry does not have, and no backend call of the plan is
\* issued or answered, those to backends of the registry included.
C12_UnknownBackendIssuesNoCall ==
    NamesUnknownBackend =>
        /\ fanout = <<>>
        /\ results = <<>>
        /\ ~Merged
        /\ ExecutionEntered =>
               /\ ppc # "fanout"
               /\ presult.kind = "err"
               /\ \E c \in 1..Len(plan) :
                      /\ plan[c] \notin Registry
                      /\ presult.err = "unresolvable backend: " \o plan[c]
               /\ perrors = <<>>

\* C12: a request has ended whose plan names a backend of the registry
\* first and one unknown to the registry after it.
C12_Witness ==
    /\ ppc = "done"
    /\ Len(plan) >= 2
    /\ plan[1] \in Registry
    /\ NamesUnknownBackend

\* The results collected for the call c.
ResultsOf(c) == {i \in 1..Len(results) : results[i].call = c}

\* C13: when every backend call of the plan has ended, and so when the merge
\* completes, every call of the plan has exactly one result, a success or a
\* failure, also when the plan names one backend several times; before that
\* no call has two results and a call has a result only once it has ended.
C13_OneResultPerCall ==
    /\ \A c \in 1..Len(fanout) :
           /\ Cardinality(ResultsOf(c)) = (IF fanout[c].at = "done" THEN 1 ELSE 0)
           /\ \A i \in ResultsOf(c) : results[i].res.kind \in {"ok", "err"}
    /\ \A i \in 1..Len(results) : results[i].call \in 1..Len(fanout)
    /\ Merged =>
           /\ Len(fanout) = Len(plan)
           /\ Len(results) = Len(plan)
           /\ \A c \in 1..Len(plan) : Cardinality(ResultsOf(c)) = 1

\* C13: the merge is done for a plan that names one backend twice, and the
\* result of the second call arrived first.
C13_Witness ==
    /\ Merged
    /\ Len(plan) >= 2
    /\ plan[1] = plan[2]
    /\ results[1].call = 2

\* The outcome of the call c: the answer of its backend as the decorated
\* stage of the backend returns it.
Outcome(c) ==
    IF fanout[c].res.kind = "ok"
    THEN Ok(fanout[c].res.val \o HooksAscending("after_subgraph", plan[c], Len(plugins)))
    ELSE fanout[c].res

RECURSIVE FailuresInCallOrder(_)
FailuresInCallOrder(c) ==
    IF c > Len(fanout) THEN <<>>
    ELSE (IF fanout[c].res.kind = "err"
          THEN << [call |-> c, backend |-> plan[c], kind |-> fanout[c].res.err] >>
          ELSE <<>>)
             \o FailuresInCallOrder(c + 1)

\* C14: the aggregate response is determined by the plan and the outcome of
\* each call, whatever the order in which the calls complete: each call is
\* paired with its own outcome, the payload is that of the successful calls
\* in the order of the calls of the plan, and the error entries are those of
\* the failed calls in the order of the calls of the plan.
C14_AggregateIndependentOfArrival ==
    /\ \A c \in 1..Len(fanout) : \A i \in ResultsOf(c) : results[i].res = Outcome(c)
    /\ (Merged /\ ppc = "executed") =>
           IF FailedCalls # 1..Len(fanout)
           THEN /\ presult = Ok(Append(SuccessfulPayloads(1), MergeMark))
                /\ perrors = FailuresInCallOrder(1)
           ELSE /\ presult = Err("fanout")
                /\ perrors = <<>>
    /\ (Merged /\ ppc \in {"routed", "done"}) =>
           /\ presult.kind = (IF FailedCalls # 1..Len(fanout) THEN "ok" ELSE "err")
           /\ perrors = (IF FailedCalls # 1..Len(fanout)
                         THEN FailuresInCallOrder(1) ELSE <<>>)

\* C14: the merge is done, the results arrived in another order than that of
\* the calls, and the first call failed while a later one succeeded.
C14_Witness ==
    /\ Merged
    /\ ppc = "executed"
    /\ Len(results) >= 2
    /\ results[1].call # 1
    /\ fanout[1].res.kind = "err"
    /\ results[1].res.kind = "ok"

-----------------------------------------------------------------------------
(* The cancellation of one of several concurrent requests *)

PendingCalls(req) == {c \in 1..Len(req.calls) : req.calls[c] = "pending"}

\* C15: when a request is cancelled or times out while some of its backend
\* calls are pending, all its pending calls are cancelled and its answered
\* calls stay as they are, no response is produced for it then or later, and
\* the step changes nothing of any other request: not its calls in flight,
\* not its response.
C15_CancellationIsPerRequest ==
    /\ [](\A r \in 1..MaxRequests :
            inflight[r].at \in Aborts =>
                /\ PendingCalls(inflight[r]) = {}
                /\ inflight[r].response = "none")
    /\ [][\A r \in 1..MaxRequests :
            /\ (inflight[r].at = "fanout" /\ inflight'[r].at \in Aborts) =>
                   /\ \A c \in 1..Len(inflight[r].calls) :
                          inflight'[r].calls[c] =
                              (IF inflight[r].calls[c] = "pending" THEN "cancelled"
                               ELSE inflight[r].calls[c])
                   /\ \A q \in 1..MaxRequests \ {r} : inflight'[q] = inflight[q]
            /\ inflight[r].at \in Aborts => inflight'[r] = inflight[r]]_vars

\* C15: a request was cancelled with two of its three calls pending, while
\* another request has calls in flight.
C15_Witness ==
    \E r, q \in 1..MaxRequests :
        /\ r # q
        /\ inflight[r].at = "cancelled"
        /\ Len(inflight[r].calls) = 3
        /\ Cardinality({c \in 1..3 : inflight[r].calls[c] = "cancelled"}) = 2
        /\ inflight[q].at = "fanout"
        /\ PendingCalls(inflight[q]) # {}

\* The kinds a failure of the whole request is classified by: those of the
\* planner, that of a fan-out with no usable result, that of a backend the
\* registry does not have.
FailureKinds ==
    Errors \cup {"fanout"} \cup {"unresolvable backend: " \o n : n \in PlanNames \ Registry}

\* C16: every request that was received, whose hooks, planner and backend
\* calls all return, ends; it ends either with an aggregate response, which
\* is not empty and whose error entries are those of its failed calls, or
\* with one failure of a classified kind and no response; a request whose
\* plan has no successful backend call ends with a failure.
C16_EveryInvokeEndsInResponseOrFailure ==
    /\ (ppc # "idle") ~> (ppc = "done")
    /\ [](ppc = "done" =>
            \/ /\ presult.kind = "ok"
               /\ presult.val # <<>>
               /\ presult.err = ""
               /\ \E c \in 1..Len(fanout) : fanout[c].res.kind = "ok"
               /\ Len(perrors) = Cardinality(FailedCalls)
            \/ /\ presult.kind = "err"
               /\ presult.err \in FailureKinds
               /\ presult.val = <<>>
               /\ perrors = <<>>)

\* C16: a request has ended whose plan has two calls, both failed.
C16_Witness ==
    /\ ppc = "done"
    /\ Len(fanout) >= 2
    /\ FailedCalls = 1..Len(fanout)
    /\ presult.err = "fanout"

-----------------------------------------------------------------------------
(* The bounded queue in front of a service *)

\* C10: at most one call is inside the service at any time, the queue never
\* holds more requests than its bound, and a call submitted while the queue
\* is full ends as a failure: no caller is left pending on the full queue and
\* none of them has its request queued later.
C10_FullQueueFailsTheCall ==
    /\ buffer.calling <= 1
    /\ buffer.queued <= BufferBound
    /\ buffer.pending = 0
    /\ buffer.late = 0

-----------------------------------------------------------------------------
(* The registrations of a builder *)

NamedHooks == {"before_subgraph", "after_subgraph"}
AnyHooks == {"before_any_subgraph", "after_any_subgraph"}

\* The calls of a setter, for a name, that returned a builder.
Accepted(setter, name) ==
    SelectSeq(calls, LAMBDA c : c.setter = setter /\ c.name = name /\ c.ret = "ok")

Callbacks(cs) == [i \in 1..Len(cs) |-> cs[i].cb]

\* The call i repeats an earlier call of the same setter, for the same name.
Repeats(i) ==
    \E j \in 1..(i - 1) : calls[j].setter = calls[i].setter /\ calls[j].name = calls[i].name

\* C3: a second call of a single-valued setter is reported as an error value
\* (it does not panic and it is not accepted), and the adapter still holds the
\* callback of the first call.
C3_SecondCallIsReportedError ==
    \A i \in 1..Len(calls) :
        (calls[i].setter \in SingleHooks /\ Repeats(i)) =>
            /\ calls[i].ret \notin {"panic", "ok"}
            /\ alive
            /\ pluginBuilder[calls[i].setter] = Accepted(calls[i].setter, NoName)[1].cb

\* C4: a second named-backend registration for the same (hook point, backend
\* name) is reported as an error (no panic, no overwrite); a registration for
\* another name, or for the other hook point of the name, succeeds.
C4_NamedDuplicateIsReportedError ==
    \A i \in 1..Len(calls) :
        calls[i].setter \in NamedHooks =>
            IF Repeats(i)
            THEN calls[i].ret \notin {"panic", "ok"}
            ELSE calls[i].ret = "ok"

\* At most one accepted registration per single-valued hook point and per
\* (named hook point, backend name), and the slot holds its callback.
OnePerKey ==
    /\ \A h \in SingleHooks :
        /\ Len(Accepted(h, NoName)) <= 1
        /\ alive => Opt(pluginBuilder[h]) = Callbacks(Accepted(h, NoName))
    /\ \A h \in NamedHooks : \A n \in Names :
        /\ Len(Accepted(h, n)) <= 1
        /\ alive => Opt(pluginBuilder[h][n]) = Callbacks(Accepted(h, n))

\* C5 (as stated): at most one registered transform per (hook point, optional
\* backend name), the any-backend hook points included.
C5_AtMostOnePerHookPoint ==
    /\ OnePerKey
    /\ \A h \in AnyHooks : Len(Accepted(h, NoName)) <= 1 /\ Len(pluginBuilder[h]) <= 1

\* C5 (amended): at most one registered transform per single-valued hook point
\* and per (named-backend hook point, backend name); the any-backend hook
\* points hold one transform per call of their setter, in the order of the
\* calls, and their setters never refuse a call.
C5_AtMostOnePerSingleOrNamedKey ==
    /\ OnePerKey
    /\ \A h \in AnyHooks :
        /\ alive => pluginBuilder[h] = Callbacks(Accepted(h, NoName))
        /\ \A i \in 1..Len(calls) : calls[i].setter = h => calls[i].ret = "ok"

\* C5: a builder holding two any-backend before-hooks, a single-valued hook
\* and a named hook.
C5_Witness ==
    /\ alive
    /\ Len(pluginBuilder.before_any_subgraph) >= 2
    /\ \E h \in SingleHooks : pluginBuilder[h] # None
    /\ \E n \in Names : pluginBuilder.before_subgraph[n] # None

\* A setter call that returned: the last call recorded, and its builder.
SetterReturned == Len(calls') = Len(calls) + 1 /\ calls'[Len(calls')].ret = "ok"
LastCall == calls'[Len(calls')]

\* C19: a setter call that returns changes its own slot only: it stores its
\* callback there, every other single-valued hook and every hook named for
\* another backend or of the other kind keeps its callback, and the
\* any-backend hooks registered before keep their order, the new callback
\* being added after them.
C19_SetterChangesItsSlotOnly ==
    [][SetterReturned =>
        /\ \A h \in SingleHooks :
               pluginBuilder'[h] = (IF h = LastCall.setter THEN LastCall.cb
                                    ELSE pluginBuilder[h])
        /\ \A h \in NamedHooks : \A name \in Names :
               pluginBuilder'[h][name] =
                   (IF h = LastCall.setter /\ name = LastCall.name THEN LastCall.cb
                    ELSE pluginBuilder[h][name])
        /\ \A h \in AnyHooks :
               pluginBuilder'[h] =
                   (IF h = LastCall.setter THEN Append(pluginBuilder[h], LastCall.cb)
                    ELSE pluginBuilder[h])]_vars

\* C19: a builder that holds callbacks at single-valued hooks, two
\* any-backend hooks of one kind and a hook named for each backend.
C19_Witness ==
    /\ alive
    /\ Len(calls) = MaxCalls
    /\ \A i \in 1..Len(calls) : calls[i].ret = "ok"
    /\ \E h \in AnyHooks : Len(pluginBuilder[h]) >= 2
    /\ \E h \in NamedHooks : \E name \in Names : pluginBuilder[h][name] # None

=============================================================================
